---------------------------- MODULE Spec2Model ----------------------------
(***************************************************************************)
(* Model of process_dionaea.py (DionaeaLogProcessor): the incremental log  *)
(* ingestion and the file-backed state it keeps between runs.              *)
(*                                                                         *)
(* The state is the content of the files the processor reads and writes:   *)
(* the honeypot log, the cursor file (processed_dionaea.log), the line     *)
(* hash file (processed_hashes.txt), the event store                       *)
(* (persistent_attacks.json), its backup, attacks.json and the other      *)
(* snapshot files.  One action is one invocation of process_logs:          *)
(* complete, killed at one of the points named in CrashPoints and          *)
(* DataCrashPoints, or with a file write that raises (Faults); the other   *)
(* actions are the honeypot and the log rotation tooling acting on the log *)
(* between invocations.  OverlapSpec takes two invocations step by step on *)
(* the same directory; ExtractSpec puts one line through the patterns and  *)
(* SummarySpec one store through the summary; UndatedSpec, PartialSpec and *)
(* AppendingSpec are Spec for a honeypot that writes lines with impossible *)
(* dates, whose lines are read half written, and that appends while an     *)
(* invocation runs.                                                        *)
(*                                                                         *)
(* Sizes are scaled: a log line is one byte long, and the limits of the    *)
(* source (2000, 1000, 10000, 50000 lines, 5 MB, 1000 bytes) are the small *)
(* numbers below, so that the model reaches the cases where they apply.    *)
(***************************************************************************)
EXTENDS Integers, Sequences, FiniteSets, TLC

(***************************************************************************)
(* Limits of the source, scaled.                                           *)
(***************************************************************************)
\* process_logs: sorted(...)[-2000:]
StoreBound == 2
\* process_logs: attacks[-1000:]
DisplayBound == 1
\* parse_dionaea_log: list(processed_hashes)[-10000:]
HashBound == 1
\* clear_old_log_data: st_size > 5000000
MaxLogBytes == 2
\* clear_old_log_data: len(lines) > 50000, lines[-50000:]
KeepLines == 2
\* detect_log_rotation: file_size < 1000
SmallFile == 2

(***************************************************************************)
(* Bound of the model: the longest log the honeypot writes.                *)
(***************************************************************************)
MaxLog == 3

\* the longest log in the behaviours where invocations may be killed
MaxKillLog == 2

\* the longest log before the first part of a line is written to it
MaxPartialLog == 1

(***************************************************************************)
(* Log lines.  a1 and a2 are two different texts that carry the same       *)
(* timestamp, source address and destination port; c has the timestamp of  *)
(* a1 and another address; b is later; n matches no extraction pattern.    *)
(***************************************************************************)
Lines == {"a1", "a2", "c", "b", "n", "x", "bh", "bt"}

\* re.search(pattern, line) for the two connection patterns
Matches(line) == line \notin {"n", "bh", "bt"}

\* a slip: the date is not checked
DatedAlways(line) == TRUE

\* datetime.datetime(...) of the match groups does not raise: x is a line
\* a pattern matches whose digits make no date
Dated(line) == line # "x"

\* the attack dict built from the match groups
AttackOf(line) ==
    CASE line \in {"a1", "a2"} ->
             [timestamp |-> 1, src_ip |-> "ip1", dst_port |-> 22]
      [] line = "c" ->
             [timestamp |-> 1, src_ip |-> "ip2", dst_port |-> 80]
      [] OTHER ->
             [timestamp |-> 2, src_ip |-> "ip1", dst_port |-> 445]

\* hashlib.md5(line.encode()).hexdigest(): one digest per line text
LineHash(line) == <<"md5", line>>

\* f"{attack['timestamp']}_{attack['src_ip']}_{attack['dst_port']}"
Signature(attack) == <<attack.timestamp, attack.src_ip, attack.dst_port>>

Range(s) == {s[i] : i \in 1..Len(s)}

Signatures(s) == {Signature(s[i]) : i \in 1..Len(s)}

\* s[-n:]
LastN(s, n) == IF Len(s) <= n THEN s ELSE SubSeq(s, Len(s) - n + 1, Len(s))

(***************************************************************************)
(* A JSON file: absent, holding a complete document (ok), or cut short by  *)
(* an interrupted write (partial: json.load raises).                       *)
(***************************************************************************)
\* the snapshot files other than attacks.json, in the order process_logs
\* writes them
OtherArtifacts == {"summary", "hourly_stats", "daily_stats", "binary_stats"}

\* no line given to the extraction
NoProbe == [kind |-> "none"]

NoFile == [st |-> "absent", data |-> <<>>]
PartialFile == [st |-> "partial", data |-> <<>>]
JsonFile(data) == [st |-> "ok", data |-> data]

VARIABLES
    logExists,      \* os.path.exists(self.log_path)
    log,            \* the lines of the log file
    processed_log,  \* the offset in processed_dionaea.log, -1: no such file
    hashExists,     \* processed_hashes.txt exists
    hashes,         \* the digests in processed_hashes.txt
    persistent_db,  \* persistent_attacks.json
    backup_db,      \* persistent_attacks_backup.json
    attacks_json,   \* attacks.json
    artifacts,      \* summary.json, hourly_stats.json, daily_stats.json and
                    \* binary_stats.json: "absent", "ok" or "partial" each
    mdiff,          \* getmtime(log) - getmtime(processed_dionaea.log):
                    \* "older" (< 0), "within" (0..3600), "newer" (> 3600)
    vocabulary,     \* the lines the honeypot writes in this behaviour
    obs,            \* what the last invocation read, did and returned
    runs,           \* two invocations that overlap: where each is and what
                    \* it holds in memory
    probe           \* a line given to the extraction and what came out

vars == <<logExists, log, processed_log, hashExists, hashes, persistent_db,
          backup_db, attacks_json, artifacts, mdiff, vocabulary, obs, runs,
          probe>>

Files ==
    [logExists |-> logExists, log |-> log, pos |-> processed_log,
     hashExists |-> hashExists, hashes |-> hashes, db |-> persistent_db,
     bak |-> backup_db, attacks |-> attacks_json, art |-> artifacts,
     mdiff |-> mdiff]

FileSize(fs) == Len(fs.log)


(***************************************************************************)
(* Cursor file.                                                            *)
(***************************************************************************)
\* get_last_processed_position (the second definition of the class, which
\* is the one in force): 0 without a cursor file, 0 when the log is older
\* than the cursor file, 0 when the stored offset is beyond the log's end
GetLastProcessedPosition(fs) ==
    IF fs.pos = -1 THEN 0
    ELSE IF fs.logExists /\ fs.mdiff = "older" THEN 0
    ELSE IF fs.logExists /\ fs.pos > FileSize(fs) THEN 0
    ELSE fs.pos

\* save_processed_position: the file is rewritten now, after the log's
\* last write, so the log is the older of the two
SaveProcessedPosition(fs, position) ==
    [fs EXCEPT !.pos = position, !.mdiff = "older"]

\* hash_file.unlink() when it exists
UnlinkHashFile(fs) == [fs EXCEPT !.hashExists = FALSE, !.hashes = {}]

(***************************************************************************)
(* Rotation detector.                                                      *)
(***************************************************************************)
\* last_position > file_size and file_size < 1000
SizeRule(fs) ==
    /\ GetLastProcessedPosition(fs) > FileSize(fs)
    /\ FileSize(fs) < SmallFile

\* (log_mtime - processed_mtime) > 3600, when the cursor file exists
MtimeRule(fs) == fs.pos # -1 /\ fs.mdiff = "newer"

\* detect_log_rotation
DetectLogRotation(fs) ==
    IF ~fs.logExists THEN TRUE
    ELSE IF SizeRule(fs) THEN TRUE
    ELSE MtimeRule(fs)

(***************************************************************************)
(* Line extractor.                                                         *)
(***************************************************************************)
\* the line b written in two parts: bh, its bytes up to somewhere before
\* the port, with no newline yet, and bt, the rest of it with its newline.
\* f.readline() at the i-th byte of lines: the whole of b at a bh that its
\* bt follows; a bh alone (the end of the file) and a bt alone (the read
\* began inside the line) come as they are, and no pattern matches them
LineAt(lines, i) ==
    IF lines[i] = "bh" /\ i < Len(lines) /\ lines[i + 1] = "bt" THEN "b"
    ELSE lines[i]

\* the bytes that readline took
WidthAt(lines, i) ==
    IF lines[i] = "bh" /\ i < Len(lines) /\ lines[i + 1] = "bt" THEN 2
    ELSE 1

\* the while loop of parse_dionaea_log from line i on, with the loop's
\* variables new_attacks and processed_hashes; examined is the set of lines
\* the patterns were applied to
RECURSIVE ReadLines(_, _, _, _, _, _)
ReadLines(lines, i, log_rotated, new_attacks, processed_hashes, examined) ==
    IF i > Len(lines)
    THEN [new |-> new_attacks, hashes |-> processed_hashes,
          examined |-> examined]
    ELSE IF ~log_rotated /\ LineHash(LineAt(lines, i)) \in processed_hashes
         THEN ReadLines(lines, i + WidthAt(lines, i), log_rotated,
                        new_attacks, processed_hashes, examined)
         ELSE ReadLines(lines, i + WidthAt(lines, i), log_rotated,
                        IF Matches(LineAt(lines, i))
                              /\ Dated(LineAt(lines, i))
                        THEN Append(new_attacks, AttackOf(LineAt(lines, i)))
                        ELSE new_attacks,
                        processed_hashes \cup {LineHash(LineAt(lines, i))},
                        examined \cup {LineAt(lines, i)})

\* a slip: the offset counted from where the read began
PositionAtEndRelative(lines, last_position) == Len(lines) - last_position

\* current_position = f.tell() once readline() has returned '' at the end
\* of the file, the read having started at last_position
PositionAtEnd(lines, last_position) == Len(lines)

\* parse_dionaea_log, the read loop: from last_position to the end of
\* the file
ReadFrom(fs, log_rotated, last_position, processed_hashes) ==
    LET acc == ReadLines(fs.log, last_position + 1, log_rotated, <<>>,
                         processed_hashes, {})
    IN  [fs |-> fs, log_rotated |-> log_rotated,
         last_position |-> last_position,
         current_position |-> PositionAtEnd(fs.log, last_position),
         new_attacks |-> acc.new, processed_hashes |-> acc.hashes,
         examined |-> acc.examined]

\* parse_dionaea_log, where the read starts: the stored offset and the
\* hashes on file in incremental mode; both dropped when the offset is
\* beyond the end of the file
StartRead(fs, incremental, log_rotated, stored) ==
    IF stored > FileSize(fs)
    THEN ReadFrom(fs, log_rotated, 0, {})
    ELSE ReadFrom(fs, log_rotated, stored,
                  IF fs.hashExists /\ incremental /\ ~log_rotated
                  THEN fs.hashes ELSE {})

\* a slip: the invocation returns after the rotation reset, as it does
\* for a missing log, without reading the file
ResetIfRotatedWithoutRead(fs, incremental, log_rotated) ==
    IF log_rotated
    THEN [fs |-> UnlinkHashFile(SaveProcessedPosition(fs, 0)),
          log_rotated |-> TRUE, last_position |-> 0, current_position |-> 0,
          new_attacks |-> <<>>, processed_hashes |-> {}, examined |-> {}]
    ELSE StartRead(fs, incremental, log_rotated,
                   IF incremental THEN GetLastProcessedPosition(fs) ELSE 0)

\* parse_dionaea_log, the rotation reset: offset 0 and no hash file
ResetIfRotated(fs, incremental, log_rotated) ==
    IF log_rotated
    THEN StartRead(UnlinkHashFile(SaveProcessedPosition(fs, 0)),
                   incremental, log_rotated, 0)
    ELSE StartRead(fs, incremental, log_rotated,
                   IF incremental THEN GetLastProcessedPosition(fs) ELSE 0)

\* parse_dionaea_log up to the end of the read loop: the files after the
\* rotation reset, and what the loop produced; nothing is read when the
\* log is missing
ReadLog(fs, incremental) ==
    IF ~fs.logExists
    THEN [fs |-> fs, log_rotated |-> TRUE, last_position |-> 0,
          current_position |-> 0, new_attacks |-> <<>>,
          processed_hashes |-> {}, examined |-> {}]
    ELSE ResetIfRotated(fs, incremental, DetectLogRotation(fs))

\* a slip: the hash set is written untrimmed
TrimChoicesUntrimmed(processed_hashes) == {processed_hashes}

\* set(list(processed_hashes)[-10000:]): the order of a set's list is not
\* defined, so any HashBound of its members may be the ones kept
TrimChoices(processed_hashes) ==
    IF Cardinality(processed_hashes) > HashBound
    THEN {k \in SUBSET processed_hashes : Cardinality(k) = HashBound}
    ELSE {processed_hashes}

\* parse_dionaea_log from the end of the read loop on, read being what
\* the loop produced and keep the hash set as trimmed: in incremental mode
\* the offset and the hashes are saved
ParseDionaeaLog(fs, incremental, read, keep) ==
    IF ~fs.logExists
    THEN [read EXCEPT !.fs = SaveProcessedPosition(fs, 0)]
    ELSE IF incremental
         THEN [read EXCEPT !.fs = [SaveProcessedPosition(
                                       read.fs, read.current_position)
                                   EXCEPT !.hashExists = TRUE,
                                          !.hashes = keep]]
         ELSE read

\* clear_old_log_data: a log over the size and line limits is rewritten to
\* its last lines, the offset reset and the hash file removed
ClearOldLogData(fs) ==
    IF fs.logExists /\ FileSize(fs) > MaxLogBytes /\ Len(fs.log) > KeepLines
    THEN UnlinkHashFile(
             SaveProcessedPosition(
                 [fs EXCEPT !.log = LastN(fs.log, KeepLines)], 0))
    ELSE fs

(***************************************************************************)
(* Event store.                                                            *)
(***************************************************************************)
\* load_persistent_attacks: the primary when it exists; the backup only in
\* the elif, when the primary does not exist; [] when json.load raises
LoadPersistentAttacks(fs) ==
    IF fs.db.st = "ok" THEN fs.db.data
    ELSE IF fs.db.st = "partial" THEN <<>>
    ELSE IF fs.bak.st = "ok" THEN fs.bak.data
    ELSE <<>>

\* load_existing_data, the 'attacks' entry: the store, else attacks.json
LoadExistingData(fs) ==
    LET persistent_attacks == LoadPersistentAttacks(fs)
    IN  IF persistent_attacks # <<>> THEN persistent_attacks
        ELSE IF fs.attacks.st = "ok" THEN fs.attacks.data
        ELSE <<>>

\* the snapshot files in the order process_logs writes them
Artifacts ==
    <<"attacks", "summary", "hourly_stats", "daily_stats", "binary_stats">>

\* the invocation is killed inside the write of a snapshot file
Truncated ==
    [attacks |-> "attacks_truncated", summary |-> "summary_truncated",
     hourly_stats |-> "hourly_stats_truncated",
     daily_stats |-> "daily_stats_truncated",
     binary_stats |-> "binary_stats_truncated"]

\* the write of a snapshot file raises (json.dump on a full disk)
WriteFails ==
    [attacks |-> "attacks_fails", summary |-> "summary_fails",
     hourly_stats |-> "hourly_stats_fails",
     daily_stats |-> "daily_stats_fails",
     binary_stats |-> "binary_stats_fails"]

\* the points at which an invocation may be killed, up to the write of
\* attacks.json
CrashPoints ==
    {"cursor_saved", "backup_copied", "store_truncated", "store_saved",
     "attacks_truncated"}

\* the points at which an invocation may be killed while it writes the
\* snapshot files
DataCrashPoints == {Truncated[f] : f \in DOMAIN Truncated}

\* a step of the store write raises: shutil.copy2, open(..., 'w'), json.dump
StoreFaults == {"backup_copy_fails", "store_open_fails", "store_dump_fails"}

ArtifactFaults == {WriteFails[f] : f \in DOMAIN WriteFails}

\* the points at which a file write of an invocation may raise
Faults == StoreFaults \cup ArtifactFaults

\* the invocation does not reach the snapshot files
BeforeDataFiles ==
    {"cursor_saved", "backup_copied", "store_truncated", "store_saved"}

\* a slip: the primary is written with no copy made
SavePersistentAttacksNoCopy(fs, attacks, crash) ==
    IF crash = "backup_copy_fails" /\ fs.db.st # "absent" THEN fs
    ELSE IF crash \in {"backup_copied", "store_open_fails"} THEN fs
    ELSE IF crash \in {"store_truncated", "store_dump_fails"}
         THEN [fs EXCEPT !.db = PartialFile]
    ELSE [fs EXCEPT !.db = JsonFile(attacks)]

\* save_persistent_attacks: shutil.copy2 of an existing primary to the
\* backup, open(primary, 'w') (which empties it), json.dump into it; an
\* exception raised by one of the three ends the function in its except
\* clause, which prints it when verbose
SavePersistentAttacks(fs, attacks, crash) ==
    LET copied == IF fs.db.st # "absent" THEN [fs EXCEPT !.bak = fs.db]
                  ELSE fs
    IN  IF crash = "backup_copy_fails" /\ fs.db.st # "absent" THEN fs
        ELSE IF crash \in {"backup_copied", "store_open_fails"} THEN copied
        ELSE IF crash \in {"store_truncated", "store_dump_fails"}
             THEN [copied EXCEPT !.db = PartialFile]
        ELSE [copied EXCEPT !.db = JsonFile(attacks)]

\* the snapshot file filename becomes file
WriteArtifact(fs, filename, file) ==
    IF filename = "attacks" THEN [fs EXCEPT !.attacks = file]
    ELSE [fs EXCEPT !.art[filename] = file.st]

\* a slip: save_json_file without its try/except, the exception of a
\* failed write leaves the function
SaveJsonFileUncaught(fs, filename, data, crash) ==
    IF crash = Truncated[filename]
    THEN [fs |-> WriteArtifact(fs, filename, PartialFile),
          complete |-> FALSE, killed |-> TRUE, raised |-> FALSE]
    ELSE IF crash = WriteFails[filename]
    THEN [fs |-> WriteArtifact(fs, filename, PartialFile),
          complete |-> FALSE, killed |-> FALSE, raised |-> TRUE]
    ELSE [fs |-> WriteArtifact(fs, filename, JsonFile(data)),
          complete |-> TRUE, killed |-> FALSE, raised |-> FALSE]

\* save_json_file: open(filepath, 'w'), json.dump; an exception is caught
\* and printed.  complete: the document was written whole; killed: the
\* invocation ended inside the write; raised: an exception left the
\* function
SaveJsonFile(fs, filename, data, crash) ==
    IF crash = Truncated[filename]
    THEN [fs |-> WriteArtifact(fs, filename, PartialFile),
          complete |-> FALSE, killed |-> TRUE, raised |-> FALSE]
    ELSE IF crash = WriteFails[filename]
    THEN [fs |-> WriteArtifact(fs, filename, PartialFile),
          complete |-> FALSE, killed |-> FALSE, raised |-> FALSE]
    ELSE [fs |-> WriteArtifact(fs, filename, JsonFile(data)),
          complete |-> TRUE, killed |-> FALSE, raised |-> FALSE]

\* the five save_json_file calls of process_logs from the i-th on, one
\* after the other; a call is reached when the invocation was not killed
\* and no exception left a call before it.  saved: the files written whole;
\* returned: process_logs reached its return statement
RECURSIVE SaveDataFiles(_, _, _, _, _)
SaveDataFiles(fs, i, attacks, crash, saved) ==
    IF i > Len(Artifacts)
    THEN [fs |-> fs, saved |-> saved, returned |-> TRUE]
    ELSE LET s == SaveJsonFile(fs, Artifacts[i],
                               IF i = 1 THEN attacks ELSE <<>>, crash)
         IN  IF s.killed \/ s.raised
             THEN [fs |-> s.fs, saved |-> saved, returned |-> FALSE]
             ELSE SaveDataFiles(s.fs, i + 1, attacks, crash,
                                IF s.complete
                                THEN saved \cup {Artifacts[i]}
                                ELSE saved)

\* sorted(all_attacks, key=lambda x: x['timestamp']), a stable sort: the
\* place of s[i] in the result is the number of entries with a smaller
\* timestamp, or with the same timestamp and not after it in s
PlaceByTimestamp(s, i) ==
    Cardinality({j \in 1..Len(s) :
                    \/ s[j].timestamp < s[i].timestamp
                    \/ s[j].timestamp = s[i].timestamp /\ j <= i})

SortedByTimestamp(s) ==
    [k \in 1..Len(s) |->
        s[CHOOSE i \in 1..Len(s) : PlaceByTimestamp(s, i) = k]]

\* a slip: no filter
TrulyNewAttacksUnfiltered(existing, new_attacks) == new_attacks

\* truly_new_attacks: the new attacks whose signature is not in the store
\* that was loaded
TrulyNewAttacks(existing, new_attacks) ==
    SelectSeq(new_attacks, LAMBDA a : Signature(a) \notin Signatures(existing))

\* a slip: the merged list is written untrimmed
MergedAttacksUntrimmed(existing, truly_new) ==
    SortedByTimestamp(existing \o truly_new)

\* a slip: [:2000] for [-2000:], which keeps the oldest
MergedAttacksOldest(existing, truly_new) ==
    SubSeq(SortedByTimestamp(existing \o truly_new), 1,
           IF Len(existing) + Len(truly_new) < StoreBound
           THEN Len(existing) + Len(truly_new) ELSE StoreBound)

\* sorted(existing + truly_new, key=timestamp)[-2000:]
MergedAttacks(existing, truly_new) ==
    LastN(SortedByTimestamp(existing \o truly_new), StoreBound)

\* attacks[-1000:], the list written to attacks.json
DisplayedAttacks(attacks) == LastN(attacks, DisplayBound)

(***************************************************************************)
(* process_logs: complete (crash = "none"), killed at crash (one of        *)
(* CrashPoints), or with a file write that raises (crash one of Faults).   *)
(* The result holds the files as the invocation leaves them and what it    *)
(* computed.                                                               *)
(***************************************************************************)
ProcessLogs(fs, incremental, parsed, crash) ==
    LET existing == IF incremental THEN LoadExistingData(fs) ELSE <<>>
        truly_new == TrulyNewAttacks(existing, parsed.new_attacks)
        cleared == ClearOldLogData(parsed.fs)
        all_attacks == existing \o truly_new
        attacks == MergedAttacks(existing, truly_new)
        stored == SavePersistentAttacks(cleared, attacks, crash)
        written == SaveDataFiles(stored, 1, DisplayedAttacks(attacks), crash,
                                 {})
    IN  [fs |-> IF crash = "cursor_saved" THEN parsed.fs
                ELSE IF crash \in BeforeDataFiles THEN stored
                ELSE written.fs,
         saved |-> IF crash \in BeforeDataFiles THEN {} ELSE written.saved,
         returned |-> crash \notin BeforeDataFiles /\ written.returned,
         loaded |-> IF incremental THEN LoadPersistentAttacks(fs) ELSE <<>>,
         existing |-> existing,
         new_attacks |-> parsed.new_attacks,
         hashed |-> parsed.processed_hashes,
         log_rotated |-> parsed.log_rotated,
         last_position |-> parsed.last_position,
         examined |-> parsed.examined,
         hashes_read |-> Cardinality(parsed.processed_hashes),
         all_attacks |-> Len(all_attacks),
         cleared |-> cleared.log # parsed.fs.log,
         new_attacks_this_run |-> Len(truly_new)]

(***************************************************************************)
(* The extraction of one line, field by field.  A line is what the two     *)
(* patterns see of it: which of them match it (pattern), whether the       *)
(* digits of its date and time make a date (date_ok), the time (when), the *)
(* address captured as four octets and the port captured as its digits.    *)
(***************************************************************************)
\* port_map of guess_service_from_port
PortMap ==
    [p \in {"21", "22", "23", "25", "53", "80", "110", "135", "139", "143",
            "443", "445", "993", "995", "1433", "3306", "3389", "5060",
            "1723", "5000", "11211", "27017", "1883", "631", "69"} |->
        CASE p = "21" -> "ftp" [] p = "22" -> "ssh" [] p = "23" -> "telnet"
          [] p = "25" -> "smtp" [] p = "53" -> "dns" [] p = "80" -> "http"
          [] p = "110" -> "pop3" [] p = "135" -> "epmap"
          [] p = "139" -> "netbios" [] p = "143" -> "imap"
          [] p = "443" -> "https" [] p = "445" -> "smb"
          [] p = "993" -> "imaps" [] p = "995" -> "pop3s"
          [] p = "1433" -> "mssql" [] p = "3306" -> "mysql"
          [] p = "3389" -> "rdp" [] p = "5060" -> "sip"
          [] p = "1723" -> "pptp" [] p = "5000" -> "upnp"
          [] p = "11211" -> "memcache" [] p = "27017" -> "mongo"
          [] p = "1883" -> "mqtt" [] p = "631" -> "printer"
          [] OTHER -> "tftp"]

\* a slip: the fallback label for every port
GuessServiceFromPortNoTable(port) == <<"port-", port>>

\* guess_service_from_port: port_map.get(str(port), f'port-{port}'); a
\* label is the sequence of the strings it is made of
GuessServiceFromPort(port) ==
    IF port \in DOMAIN PortMap THEN <<PortMap[port]>> ELSE <<"port-", port>>

\* ip.startswith(('192.168.', '10.', '172.16.', '127.', '0.0.0.0'))
StartsWithLocalPrefix(ip) ==
    \/ ip[1] = 192 /\ ip[2] = 168
    \/ ip[1] = 10
    \/ ip[1] = 172 /\ ip[2] = 16
    \/ ip[1] = 127
    \/ ip[1] = 0 /\ ip[2] = 0 /\ ip[3] = 0 /\ ip[4] = 0

\* self.geoip_reader: None ("none"), or a reader whose city(ip) raises
\* ("raises"), returns names ("found") or returns no names ("unnamed")
Readers == {"none", "raises", "found", "unnamed"}

\* get_location; consulted: geoip_reader.city(ip) was called
GetLocation(ip, reader) ==
    IF StartsWithLocalPrefix(ip)
    THEN [country |-> "Private/Local", city |-> "Local Network", lat |-> 0,
          lon |-> 0, consulted |-> FALSE]
    ELSE IF reader = "none"
    THEN [country |-> "Unknown", city |-> "Unknown", lat |-> 0, lon |-> 0,
          consulted |-> FALSE]
    ELSE IF reader = "found"
    THEN [country |-> "Spain", city |-> "Bilbao", lat |-> 43, lon |-> -3,
          consulted |-> TRUE]
    ELSE [country |-> "Unknown", city |-> "Unknown", lat |-> 0, lon |-> 0,
          consulted |-> TRUE]

\* the patterns in the order they are tried
Patterns == <<"connection", "accept">>

\* re.search(patterns[i], line)
PatternMatches(i, line) == line.pattern \in {Patterns[i], "both"}

\* the attack dict of a match
AttackDict(line, reader) ==
    [timestamp |-> line.when, src_ip |-> line.src_ip,
     src_port |-> "unknown", dst_port |-> line.dst_port,
     service |-> GuessServiceFromPort(line.dst_port),
     country |-> GetLocation(line.src_ip, reader).country,
     city |-> GetLocation(line.src_ip, reader).city,
     lat |-> GetLocation(line.src_ip, reader).lat,
     lon |-> GetLocation(line.src_ip, reader).lon]

\* the loop over the patterns from the i-th on, for one line: the events
\* appended to new_attacks.  A match whose digits make no date raises in
\* datetime.datetime(...) and the loop goes on (continue); a match that is
\* parsed ends it (break)
RECURSIVE ExtractLine(_, _, _)
ExtractLine(line, reader, i) ==
    IF i > Len(Patterns) THEN <<>>
    ELSE IF PatternMatches(i, line) /\ line.date_ok
         THEN <<AttackDict(line, reader)>>
         ELSE ExtractLine(line, reader, i + 1)

\* the addresses and ports given to the extraction
ProbeOctets1 == {0, 10, 45, 127, 169, 172, 192}
ProbeOctets2 == {0, 16, 20, 168, 254}
ProbeAddresses ==
    {<<o1, o2, 0, o4>> : o1 \in ProbeOctets1, o2 \in ProbeOctets2,
                         o4 \in {0, 1}}
ProbePorts == {"22", "80", "445", "8080", "0"}

\* the lines given to the extraction
ProbeLines ==
    [pattern : {"connection", "accept", "both", "none"}, date_ok : BOOLEAN,
     when : {1}, src_ip : ProbeAddresses, dst_port : ProbePorts]

(***************************************************************************)
(* The summary's count of recent events.  Time is in hours since some      *)
(* midnight: the timestamp of an event and the clock of the run are        *)
(* numbers of hours, and the day either falls on is its quotient by 24.    *)
(***************************************************************************)
\* strftime('%Y-%m-%d') of a time: its calendar day
DayKey(hour) == hour \div 24

\* daily_stats: day_key -> how many of attacks fall on that day
DailyStats(attacks) ==
    [d \in {DayKey(attacks[i]) : i \in 1..Len(attacks)} |->
        Cardinality({i \in 1..Len(attacks) : DayKey(attacks[i]) = d})]

\* sum(v for k, v in daily_stats.items() if k in keys)
RECURSIVE SumOver(_, _)
SumOver(daily_stats, keys) ==
    IF keys = {} THEN 0
    ELSE LET k == CHOOSE x \in keys : TRUE
         IN  daily_stats[k] + SumOver(daily_stats, keys \ {k})

\* summary['last_24h_attacks']: the events of the days from the day of
\* (now - timedelta(days=1)) on
Last24hAttacks(daily_stats, now) ==
    SumOver(daily_stats,
            {k \in DOMAIN daily_stats : k >= DayKey(now - 24)})

\* the hours events are stamped with and the hours a run's clock shows
EventHours == {0, 20, 25, 30, 47, 50, 70}
ClockHours == {48, 50, 60, 71}
MaxSummarised == 2

\* the stores given to the summary: events in the order of their
\* timestamps
SummaryInputs ==
    {a \in UNION {[1..n -> EventHours] : n \in 0..MaxSummarised} :
        \A i \in 1..(Len(a) - 1) : a[i] <= a[i + 1]}

(***************************************************************************)
(* State machine.                                                          *)
(***************************************************************************)
NoFiles ==
    [logExists |-> FALSE, log |-> <<>>, pos |-> -1, hashExists |-> FALSE,
     hashes |-> {}, db |-> NoFile, bak |-> NoFile, attacks |-> NoFile,
     art |-> [f \in OtherArtifacts |-> "absent"], mdiff |-> "older"]

\* what an invocation holds of parse_dionaea_log before its read loop
NoRead ==
    [fs |-> NoFiles, log_rotated |-> FALSE, last_position |-> 0,
     current_position |-> 0, new_attacks |-> <<>>, processed_hashes |-> {},
     examined |-> {}]

\* an invocation that has not loaded yet: where it is (pc) and what it
\* holds in memory (existing_data['attacks'], the read loop's results)
Fresh == [pc |-> "load", existing |-> <<>>, read |-> NoRead]

\* no two invocations started together.  serial: the stores two
\* invocations one after the other leave, from the files as they were when
\* the two started.  overlapped: one took a step while the other was
\* between its load and its last write
NoRuns ==
    [started |-> FALSE, overlapped |-> FALSE, serial |-> {},
     proc |-> <<Fresh, Fresh>>]

\* obs between invocations.  replaced: the log was removed or replaced by
\* a new file since the last invocation.  grown: the cursor file was left
\* by a complete incremental invocation and the log has only been appended
\* to since.  one_new: since the last invocation, a complete incremental
\* one, exactly one line was appended, a matching line whose signature is
\* not in the store
Idle(replaced, grown, one_new) ==
    [kind |-> "idle", crash |-> "none", incremental |-> FALSE,
     consecutive |-> FALSE, replaced |-> replaced, grown |-> grown,
     one_new |-> one_new, stage |-> 0,
     beyond |-> FALSE, size |-> 0, preDb |-> NoFile, fallback |-> NoFile,
     loaded |-> <<>>, existing |-> <<>>, new_attacks |-> <<>>,
     examined |-> {}, hashed |-> {}, owed |-> {}, completed |-> FALSE,
     appended |-> "none",
     log_rotated |-> FALSE, last_position |-> 0,
     skipped |-> {}, rehashed |-> {}, stale |-> {}, saved |-> {},
     returned |-> FALSE, hashes_over |-> FALSE,
     store_over |-> FALSE, cleared |-> FALSE, new_attacks_this_run |-> 0]

Replaced == obs.kind = "idle" /\ obs.replaced

\* appending line now makes it the one line appended since a complete
\* incremental invocation, a matching line with a signature new to the store
OneNew(line) ==
    /\ obs.kind = "done" /\ obs.incremental
    /\ Matches(line)
    /\ Signature(AttackOf(line)) \notin Signatures(persistent_db.data)

\* the place of a complete incremental invocation in a sequence of three
\* with one such line appended between the first and the second and nothing
\* between the second and the third: 2, 3, or 0 when it is in no such place
Stage(kind, incremental) ==
    IF kind # "done" \/ ~incremental THEN 0
    ELSE IF obs.kind = "idle" /\ obs.one_new THEN 2
    ELSE IF obs.kind = "done" /\ obs.stage = 2 THEN 3
    ELSE 0

\* the events an invocation killed after it saved the offset and the
\* hashes and before it wrote the store had extracted from lines whose hash
\* it left on file; after the complete invocation that follows at once,
\* the same events
Owed(r, kind, crash, incremental) ==
    IF kind = "crashed" /\ incremental
          /\ crash \in {"cursor_saved", "backup_copied", "store_truncated"}
    THEN {AttackOf(l) : l \in {e \in r.examined :
                                  /\ Matches(e) /\ Dated(e)
                                  /\ LineHash(e) \in r.fs.hashes}}
    ELSE IF kind = "done" /\ obs.kind = "crashed" THEN obs.owed
    ELSE {}

Grown ==
    IF obs.kind = "idle" THEN obs.grown
    ELSE obs.kind = "done" /\ obs.incremental

\* obs after an invocation with result r:
\*   consecutive  the invocation before was a complete incremental one and
\*                the log was not written in between
\*   replaced, grown  as in Idle, when the invocation began
\*   beyond       the offset in the cursor file was larger than the log
\*   size         the size of the log as the invocation found it
\*   preDb        the store file as the invocation found it
\*   fallback     the backup file as the invocation found it, when the
\*                store file held no complete document
\*   loaded       what load_persistent_attacks returned
\*   existing     existing_data['attacks']
\*   new_attacks  what parse_dionaea_log returned
\*   examined     the lines the patterns were applied to
\*   hashed       processed_hashes at the end of the read loop
\*   owed         see Owed
\*   appended     the line the honeypot appended while the invocation ran,
\*                or none
\*   completed    the invocation is the first since the honeypot completed
\*                a line whose first part an earlier one had read
\*   skipped      matching lines of the log the patterns were not applied to
\*   rehashed     lines the patterns were applied to whose hash was on file
\*   stale        hashes the invocation leaves on file that are not of lines
\*                it applied the patterns to
\*   saved        the snapshot files the invocation wrote whole
\*   returned     process_logs returned its summary
\*   hashes_over, store_over  the hash set, the merged list were over their
\*                bounds before trimming
\*   cleared      clear_old_log_data rewrote the log
Observed(r, kind, crash, incremental) ==
    [kind |-> kind, crash |-> crash, incremental |-> incremental,
     consecutive |-> obs.kind = "done" /\ obs.incremental,
     replaced |-> Replaced, grown |-> Grown,
     one_new |-> FALSE, stage |-> Stage(kind, incremental),
     beyond |-> logExists /\ processed_log > Len(log),
     size |-> Len(log),
     preDb |-> persistent_db,
     fallback |-> IF persistent_db.st = "ok" THEN NoFile ELSE backup_db,
     loaded |-> r.loaded, existing |-> r.existing,
     new_attacks |-> r.new_attacks, examined |-> r.examined,
     hashed |-> r.hashed, owed |-> Owed(r, kind, crash, incremental),
     completed |-> kind = "done" /\ incremental /\ obs.kind = "idle"
                      /\ obs.completed,
     appended |-> "none",
     log_rotated |-> r.log_rotated,
     last_position |-> r.last_position,
     skipped |-> {l \in Range(log) : Matches(l)} \ r.examined,
     rehashed |-> {l \in r.examined : LineHash(l) \in hashes},
     stale |-> r.fs.hashes \ {LineHash(l) : l \in r.examined},
     saved |-> r.saved, returned |-> r.returned,
     hashes_over |-> r.hashes_read > HashBound,
     store_over |-> r.all_attacks > StoreBound, cleared |-> r.cleared,
     new_attacks_this_run |-> r.new_attacks_this_run]

\* the sets of lines a behaviour draws the honeypot's output from
Scenarios == {{"a1", "a2", "n"}, {"a1", "c", "b"}}

\* the whole lines of a honeypot whose line b is seen half written
PartialScenarios == {{"a1", "n"}}

\* as Init, for such a honeypot
InitPartial ==
    /\ logExists = FALSE
    /\ log = <<>>
    /\ processed_log = -1
    /\ hashExists = FALSE
    /\ hashes = {}
    /\ persistent_db = NoFile
    /\ backup_db = NoFile
    /\ attacks_json = NoFile
    /\ artifacts = [f \in OtherArtifacts |-> "absent"]
    /\ mdiff = "older"
    /\ vocabulary \in PartialScenarios
    /\ obs = Idle(FALSE, FALSE, FALSE)
    /\ runs = NoRuns
    /\ probe = NoProbe

\* the lines of a honeypot that also writes lines with impossible dates
UndatedScenarios == {{"a1", "c", "x", "n"}}

\* as Init, for such a honeypot
InitUndated ==
    /\ logExists = FALSE
    /\ log = <<>>
    /\ processed_log = -1
    /\ hashExists = FALSE
    /\ hashes = {}
    /\ persistent_db = NoFile
    /\ backup_db = NoFile
    /\ attacks_json = NoFile
    /\ artifacts = [f \in OtherArtifacts |-> "absent"]
    /\ mdiff = "older"
    /\ vocabulary \in UndatedScenarios
    /\ obs = Idle(FALSE, FALSE, FALSE)
    /\ runs = NoRuns
    /\ probe = NoProbe

Init ==
    /\ logExists = FALSE
    /\ log = <<>>
    /\ processed_log = -1
    /\ hashExists = FALSE
    /\ hashes = {}
    /\ persistent_db = NoFile
    /\ backup_db = NoFile
    /\ attacks_json = NoFile
    /\ artifacts = [f \in OtherArtifacts |-> "absent"]
    /\ mdiff = "older"
    /\ vocabulary \in Scenarios
    /\ obs = Idle(FALSE, FALSE, FALSE)
    /\ runs = NoRuns
    /\ probe = NoProbe

\* the files become those of fs
Leaves(fs) ==
    /\ logExists' = fs.logExists
    /\ log' = fs.log
    /\ processed_log' = fs.pos
    /\ hashExists' = fs.hashExists
    /\ hashes' = fs.hashes
    /\ persistent_db' = fs.db
    /\ backup_db' = fs.bak
    /\ attacks_json' = fs.attacks
    /\ artifacts' = fs.art
    /\ mdiff' = fs.mdiff

\* an invocation: complete (crash = "none"), killed at crash, or with a
\* file write that raises at crash
Invoke(kind, crash) ==
    \E incremental \in BOOLEAN :
      \E read \in {ReadLog(Files, incremental)} :
        \E keep \in TrimChoices(read.processed_hashes) :
          \E parsed \in {ParseDionaeaLog(Files, incremental, read, keep)} :
            \E r \in {ProcessLogs(Files, incremental, parsed, crash)} :
              /\ Leaves(r.fs)
              /\ obs' = Observed(r, kind, crash, incremental)
              /\ UNCHANGED <<vocabulary, runs, probe>>

\* the honeypot appends line to the log of fs, seconds after the cursor
\* file was written
AppendedTo(fs, line) ==
    [fs EXCEPT !.logExists = TRUE, !.log = Append(@, line),
               !.mdiff = "within"]

\* when the honeypot appends a line during an invocation that has left
\* parse_dionaea_log: before clear_old_log_data reads the lines of the log,
\* or between that and its rewriting of the log
ClearPoints == {"before_clear_read", "after_clear_read"}

\* a complete invocation with the honeypot appending a line at point:
\* before the read of clear_old_log_data the line is among those it reads;
\* after it, open(log_path, 'w') and writelines(lines[-50000:]) replace the
\* content of the file, the line included, and with no rewrite the line
\* just follows the others
RunWhileAppending ==
    \E incremental \in BOOLEAN, line \in vocabulary, point \in ClearPoints :
      \E read \in {ReadLog(Files, incremental)} :
        \E keep \in TrimChoices(read.processed_hashes) :
          \E parsed \in {ParseDionaeaLog(Files, incremental, read, keep)} :
            \E r \in {ProcessLogs(
                          Files, incremental,
                          IF point = "before_clear_read"
                          THEN [parsed EXCEPT
                                   !.fs = AppendedTo(parsed.fs, line)]
                          ELSE parsed,
                          "none")} :
              /\ logExists
              /\ Len(log) <= MaxLog
              /\ Leaves(IF point = "after_clear_read" /\ ~r.cleared
                        THEN AppendedTo(r.fs, line) ELSE r.fs)
              /\ obs' = [Observed(r, "done", "none", incremental) EXCEPT
                             !.appended = line]
              /\ UNCHANGED <<vocabulary, runs, probe>>

\* one complete invocation: main() -> process_logs()
Run == Invoke("done", "none")

\* an invocation killed at one of the crash points
RunKilled == \E crash \in CrashPoints : Invoke("crashed", crash)

\* the mtime relation after the log is written now
AfterLogWrite ==
    IF processed_log = -1 THEN {"within"}
    ELSE IF logExists /\ mdiff = "newer" THEN {"newer"}
    ELSE {"within", "newer"}

\* the honeypot appends a line to its log (creating the log if need be),
\* which holds fewer than limit lines
AppendLine(limit) ==
    \E line \in vocabulary, m \in AfterLogWrite :
        /\ Len(log) < limit
        /\ logExists' = TRUE
        /\ log' = Append(log, line)
        /\ mdiff' = m
        /\ obs' = Idle(Replaced, Grown, OneNew(line))
        /\ UNCHANGED <<processed_log, hashExists, hashes, persistent_db,
                       backup_db, attacks_json, artifacts, vocabulary,
                       runs, probe>>

LogAppend == AppendLine(MaxLog)

LogAppendShort == AppendLine(MaxKillLog)

\* the last line of the log is half written
HalfWritten ==
    IF log = <<>> THEN FALSE ELSE log[Len(log)] = "bh"

\* the honeypot has written the first part of a line to its log, creating
\* the log if need be
WriteHead ==
    \E m \in AfterLogWrite :
        /\ Len(log) < MaxPartialLog
        /\ ~HalfWritten
        /\ logExists' = TRUE
        /\ log' = Append(log, "bh")
        /\ mdiff' = m
        /\ obs' = Idle(Replaced, Grown, FALSE)
        /\ UNCHANGED <<processed_log, hashExists, hashes, persistent_db,
                       backup_db, attacks_json, artifacts, vocabulary,
                       runs, probe>>

\* the honeypot has written the rest of the line
WriteTail ==
    \E m \in AfterLogWrite :
        /\ logExists
        /\ HalfWritten
        /\ log' = Append(log, "bt")
        /\ mdiff' = m
        /\ obs' = [Idle(Replaced, Grown, FALSE) EXCEPT
                       !.completed = /\ obs.kind = "done" /\ obs.incremental
                                     /\ "bh" \in obs.examined]
        /\ UNCHANGED <<logExists, processed_log, hashExists, hashes,
                       persistent_db, backup_db, attacks_json, artifacts,
                       vocabulary, runs, probe>>

\* the honeypot appends a whole line, none being half written
LogAppendWhole ==
    /\ Len(log) < MaxPartialLog
    /\ ~HalfWritten
    /\ AppendLine(MaxPartialLog)

\* rotation tooling replaces the log by a new, empty file
LogRotate ==
    \E m \in AfterLogWrite :
        /\ logExists
        /\ log # <<>>
        /\ log' = <<>>
        /\ mdiff' = m
        /\ obs' = Idle(TRUE, FALSE, FALSE)
        /\ UNCHANGED <<logExists, processed_log, hashExists, hashes,
                       persistent_db, backup_db, attacks_json, artifacts,
                       vocabulary, runs, probe>>

\* the log is removed
LogRemove ==
    /\ logExists
    /\ logExists' = FALSE
    /\ log' = <<>>
    /\ mdiff' = "older"
    /\ obs' = Idle(TRUE, FALSE, FALSE)
    /\ UNCHANGED <<processed_log, hashExists, hashes, persistent_db,
                   backup_db, attacks_json, artifacts, vocabulary, runs,
                   probe>>

\* one line goes through the patterns of parse_dionaea_log, and its address
\* through get_location
Extract ==
    \E line \in ProbeLines, reader \in Readers :
        /\ probe = NoProbe
        /\ probe' = [kind |-> "extracted", line |-> line, reader |-> reader,
                     events |-> ExtractLine(line, reader, 1),
                     location |-> GetLocation(line.src_ip, reader)]
        /\ UNCHANGED <<logExists, log, processed_log, hashExists, hashes,
                       persistent_db, backup_db, attacks_json, artifacts,
                       mdiff, vocabulary, obs, runs>>

\* process_logs, the summary of a store whose events are none later than
\* the clock
Summarise ==
    \E attacks \in SummaryInputs, now \in ClockHours :
        /\ probe = NoProbe
        /\ \A i \in 1..Len(attacks) : attacks[i] <= now
        /\ \E daily_stats \in {DailyStats(attacks)} :
               probe' = [kind |-> "summary", attacks |-> attacks,
                         now |-> now, daily_stats |-> daily_stats,
                         last_24h_attacks |->
                             Last24hAttacks(daily_stats, now)]
        /\ UNCHANGED <<logExists, log, processed_log, hashExists, hashes,
                       persistent_db, backup_db, attacks_json, artifacts,
                       mdiff, vocabulary, obs, runs>>

\* the files one complete incremental invocation may leave
RunOutcomes(fs) ==
    {ProcessLogs(fs, TRUE,
                 ParseDionaeaLog(fs, TRUE, ReadLog(fs, TRUE), keep),
                 "none").fs :
        keep \in TrimChoices(ReadLog(fs, TRUE).processed_hashes)}

\* the stores two complete incremental invocations one after the other
\* may leave; the two run the same code in the same mode, so the two
\* orders leave the same
SerialStores(fs) ==
    {g.db : g \in UNION {RunOutcomes(f) : f \in RunOutcomes(fs)}}

\* two incremental invocations are started on the same output directory
StartTwo ==
    /\ ~runs.started
    /\ \E serial \in {SerialStores(Files)} :
           runs' = [NoRuns EXCEPT !.started = TRUE, !.serial = serial]
    /\ UNCHANGED <<logExists, log, processed_log, hashExists, hashes,
                   persistent_db, backup_db, attacks_json, artifacts, mdiff,
                   vocabulary, obs, probe>>

\* invocation p takes a step that leaves it as proc and the files as fs
Step(p, proc, fs) ==
    /\ Leaves(fs)
    /\ runs' = [runs EXCEPT
                   !.proc[p] = proc,
                   !.overlapped =
                       @ \/ runs.proc[3 - p].pc \in
                                {"extract", "cursor", "save"}]
    /\ UNCHANGED <<vocabulary, obs, probe>>

\* a slip: what was loaded is not kept
HoldingNothing(existing) == NoFiles

\* files from which load_existing_data returns existing: what an
\* invocation that loaded existing goes on with, whatever the files have
\* become
Holding(existing) == [NoFiles EXCEPT !.db = JsonFile(existing)]

\* process_logs: existing_data = self.load_existing_data()
LoadStep(p) ==
    /\ runs.started /\ runs.proc[p].pc = "load"
    /\ \E existing \in {LoadExistingData(Files)} :
           Step(p, [runs.proc[p] EXCEPT !.pc = "extract",
                                        !.existing = existing], Files)

\* parse_dionaea_log up to the end of the read loop
ExtractStep(p) ==
    /\ runs.started /\ runs.proc[p].pc = "extract"
    /\ \E read \in {ReadLog(Files, TRUE)} :
           Step(p, [runs.proc[p] EXCEPT !.pc = "cursor",
                                        !.read = [read EXCEPT !.fs = NoFiles]],
                read.fs)

\* parse_dionaea_log from the end of the read loop on: the offset and the
\* hashes are saved
CursorSaveStep(p) ==
    /\ runs.started /\ runs.proc[p].pc = "cursor"
    /\ \E keep \in TrimChoices(runs.proc[p].read.processed_hashes) :
         \E parsed \in {ParseDionaeaLog(
                            Files, TRUE,
                            [runs.proc[p].read EXCEPT !.fs = Files], keep)} :
           Step(p, [runs.proc[p] EXCEPT !.pc = "save"], parsed.fs)

\* process_logs after parse_dionaea_log: filter, clear_old_log_data, merge,
\* save_persistent_attacks and the snapshot files
StoreSaveStep(p) ==
    /\ runs.started /\ runs.proc[p].pc = "save"
    /\ \E r \in {ProcessLogs(Holding(runs.proc[p].existing), TRUE,
                              [runs.proc[p].read EXCEPT !.fs = Files],
                              "none")} :
           Step(p, [runs.proc[p] EXCEPT !.pc = "done"], r.fs)

\* the directory before the two invocations are started
Before == ~runs.started /\ (Run \/ LogAppendShort)

Next == Run \/ LogAppend \/ LogRotate \/ LogRemove

Spec == Init /\ [][Next]_vars

\* an invocation killed inside the write of one of the snapshot files
RunKilledInData ==
    \E crash \in DataCrashPoints : Invoke("crashed", crash)

\* an invocation in which a file write raises
RunFaulty == \E fault \in Faults : Invoke("faulted", fault)

\* the same with invocations that may be killed
NextKill == Run \/ RunKilled \/ LogAppendShort

KillSpec == Init /\ [][NextKill]_vars

\* the same, the invocations killed while they write the snapshot files
NextKillData == Run \/ RunKilledInData \/ LogAppendShort

KillDataSpec == Init /\ [][NextKillData]_vars

\* two invocations started together on a directory that complete
\* invocations and the honeypot have written
NextOverlap ==
    \/ Before
    \/ StartTwo
    \/ \E p \in {1, 2} :
          LoadStep(p) \/ ExtractStep(p) \/ CursorSaveStep(p)
              \/ StoreSaveStep(p)

OverlapSpec == Init /\ [][NextOverlap]_vars

\* the invocations and the log of a honeypot that also writes lines with
\* impossible dates
UndatedSpec == InitUndated /\ [][Next]_vars

\* the invocations, scheduled again and again, and the log of a honeypot
\* whose lines may be read half written
NextPartial == Run \/ WriteHead \/ WriteTail \/ LogAppendWhole \/ LogRotate

PartialSpec == InitPartial /\ [][NextPartial]_vars /\ WF_vars(Run)

\* the invocations and a honeypot that appends between them and during
\* them
NextAppending == Run \/ RunWhileAppending \/ LogAppend

AppendingSpec == Init /\ [][NextAppending]_vars

\* the summary alone
SummarySpec == Init /\ [][Summarise]_vars

\* the extraction alone
ExtractSpec == Init /\ [][Extract]_vars

\* the same with invocations whose file writes may raise
NextFault == Run \/ RunFaulty \/ LogAppendShort

FaultSpec == Init /\ [][NextFault]_vars

(***************************************************************************)
(* Properties.                                                             *)
(***************************************************************************)
Done == obs.kind = "done"

DoneIncremental == obs.kind = "done" /\ obs.incremental

NoDuplicateSignatures(s) ==
    \A i, j \in 1..Len(s) : i # j => Signature(s[i]) # Signature(s[j])

\* C1: after every complete invocation no two events of the persisted store
\* have the same (timestamp, source address, destination port)
C1_DedupInvariant ==
    Done => NoDuplicateSignatures(persistent_db.data)

\* C2: an invocation killed inside the store write, before the new version
\* is in place, leaves the store file holding the complete prior store (here
\* a store with events in it), and the next load returns the prior events
C2_PriorStoreSurvivesKill ==
    (/\ obs.kind = "crashed"
     /\ obs.crash \in {"backup_copied", "store_truncated"}
     /\ obs.preDb.st = "ok"
     /\ obs.preDb.data # <<>>)
    => /\ persistent_db = obs.preDb
       /\ LoadPersistentAttacks(Files) = obs.preDb.data

\* C3: the second of two consecutive complete incremental invocations over
\* an unchanged log, with no rotation detected, reports no new attack and
\* leaves the store as the first left it
C3_SecondRunAddsNothing ==
    (DoneIncremental /\ obs.consecutive /\ ~obs.log_rotated)
    => /\ obs.new_attacks_this_run = 0
       /\ persistent_db.data = obs.preDb.data

\* the invocation found the log missing, rotated or truncated
LogWasReset == obs.log_rotated \/ obs.replaced \/ obs.beyond

\* the events of the store found that are not in the store left
Displaced == Range(obs.preDb.data) \ Range(persistent_db.data)

\* the events of the store left that were not in the store found
Added == Range(persistent_db.data) \ Range(obs.preDb.data)

\* C4 as stated: after an incremental invocation that found the log
\* missing, rotated or truncated (here: removed or replaced since the last
\* invocation), every event of the store found is in the store left, unless
\* the bound displaced it in favour of an event with a later timestamp
C4_DisplacedOnlyByLater ==
    (DoneIncremental /\ obs.replaced /\ obs.preDb.st = "ok")
    => \A e \in Displaced :
           /\ Len(persistent_db.data) = StoreBound
           /\ \E f \in Added : f.timestamp > e.timestamp

\* C4 as amended: ... unless the bound displaced it, and then the store
\* left is full and holds no event with an earlier timestamp
C4_DisplacedOnlyByNotEarlier ==
    (DoneIncremental /\ LogWasReset /\ obs.preDb.st = "ok")
    => \A e \in Displaced :
           /\ Len(persistent_db.data) = StoreBound
           /\ \A f \in Range(persistent_db.data) :
                  f.timestamp >= e.timestamp

\* an invocation after a rotation displaced an event of the store
C4_Witness ==
    /\ DoneIncremental /\ LogWasReset /\ obs.preDb.st = "ok"
    /\ Displaced # {}
    /\ Added # {}

\* C5: when the log was replaced by a file smaller than the stored offset,
\* the next invocation reads from offset 0 and applies the patterns to
\* every matching line of the new file
C5_RotationRecovery ==
    (DoneIncremental /\ obs.replaced /\ obs.beyond)
    => /\ obs.last_position = 0
       /\ obs.skipped = {}

\* C6 as stated: while the log is only appended to, an incremental
\* invocation never leaves a smaller offset than the one before it left
C6_CursorMonotonic ==
    [][(obs'.kind = "done" /\ obs'.incremental /\ obs'.grown)
       => processed_log' >= processed_log]_vars

\* C6 as amended: ... unless the invocation itself rewrote the log to its
\* last lines (clear_old_log_data), and then it leaves offset 0
C6_CursorMonotonicUnlessCleared ==
    [][(obs'.kind = "done" /\ obs'.incremental /\ obs'.grown)
       => \/ processed_log' >= processed_log
          \/ obs'.cleared /\ processed_log' = 0]_vars

\* an incremental invocation over a log that grew left the offset at its end
C6_Witness ==
    /\ DoneIncremental /\ obs.grown /\ ~obs.cleared
    /\ obs.last_position > 0
    /\ processed_log > obs.last_position

\* C7: while the log is only appended to, no invocation applies the
\* patterns to a line whose hash an earlier invocation left on file
C7_NoReprocessing ==
    (DoneIncremental /\ obs.grown) => obs.rehashed = {}

\* C8: after every complete invocation the store holds at most StoreBound
\* events and attacks.json at most DisplayBound
C8_SizeBounds ==
    Done => /\ persistent_db.st = "ok"
            /\ Len(persistent_db.data) <= StoreBound
            /\ attacks_json.st = "ok"
            /\ Len(attacks_json.data) <= DisplayBound

\* the merged list was over the bound and both files are at their bounds
C8_Witness ==
    /\ Done /\ obs.store_over
    /\ Len(persistent_db.data) = StoreBound
    /\ Len(attacks_json.data) = DisplayBound

\* C9: after every complete invocation the hash file holds at most
\* HashBound hashes
C9_HashBound ==
    Done => Cardinality(hashes) <= HashBound

\* the hash set read was over the bound and the file holds HashBound
C9_Witness ==
    /\ DoneIncremental /\ obs.hashes_over
    /\ hashExists
    /\ Cardinality(hashes) = HashBound

\* C10: load returns the primary when it loads, else the backup when that
\* loads, else nothing
C10_LoadFallsBack ==
    (obs.kind # "idle" /\ obs.incremental)
    => obs.loaded = IF obs.preDb.st = "ok" THEN obs.preDb.data
                    ELSE IF obs.fallback.st = "ok" THEN obs.fallback.data
                    ELSE <<>>

\* C11: when a step of the store write raises, the store file is restored:
\* after the invocation it holds the store the invocation found (here a
\* store with events in it)
C11_StoreRestoredOnFailure ==
    (/\ obs.kind = "faulted"
     /\ obs.crash \in StoreFaults
     /\ obs.preDb.st = "ok"
     /\ obs.preDb.data # <<>>)
    => persistent_db = obs.preDb

\* C12: an incremental invocation that finds the stored offset beyond the
\* end of the log reads from offset 0 with the hashes on file discarded: it
\* applies the patterns to every matching line of the log
C12_BeyondDiscardsHashes ==
    (DoneIncremental /\ obs.beyond)
    => /\ obs.last_position = 0
       /\ obs.skipped = {}

\* C13: with the log present, shorter than the offset in the cursor file
\* and under the small-file threshold, detect_log_rotation returns True
C13_SizeRuleDetects ==
    (/\ logExists
     /\ processed_log > Len(log)
     /\ Len(log) < SmallFile)
    => DetectLogRotation(Files)

\* C14: an invocation whose rotation detector returned True leaves the
\* cursor file at offset 0, or at the end of what it read itself, and leaves
\* no hash on file other than those of the lines it read itself
C14_RotationResets ==
    (Done /\ obs.log_rotated)
    => /\ processed_log = 0 \/ (obs.incremental /\ processed_log = Len(log))
       /\ obs.stale = {}

\* C15: of three consecutive complete incremental invocations with exactly
\* one line appended between the first and the second, a matching line with
\* a signature new to the store, and nothing appended between the second
\* and the third, the second reports one new attack and the third reports
\* the total the second reported
C15_AppendScenario ==
    /\ (Done /\ obs.stage = 2) => obs.new_attacks_this_run = 1
    /\ (Done /\ obs.stage = 3)
       => Len(persistent_db.data) = Len(obs.preDb.data)

\* C16: no snapshot file is ever seen cut short at its path, also when an
\* invocation is killed while it writes one
C16_NoPartialArtifact ==
    /\ attacks_json.st # "partial"
    /\ \A f \in OtherArtifacts : artifacts[f] # "partial"

\* C17: when the write of one snapshot file raises, the invocation writes
\* each of the other four whole and returns its summary
C17_ArtifactFaultIsolated ==
    (obs.kind = "faulted" /\ obs.crash \in ArtifactFaults)
    => /\ obs.returned
       /\ \A f \in DOMAIN WriteFails :
              obs.crash # WriteFails[f] => f \in obs.saved

\* the write of the first snapshot file raised and the four after it were
\* written
C17_Witness ==
    /\ obs.kind = "faulted" /\ obs.crash = "attacks_fails"
    /\ obs.returned
    /\ obs.saved = OtherArtifacts
    /\ attacks_json.st = "partial"
    /\ \A f \in OtherArtifacts : artifacts[f] = "ok"

\* the address is in 10/8, 172.16/12 or 192.168/16
IsPrivate(ip) ==
    \/ ip[1] = 10
    \/ ip[1] = 172 /\ ip[2] \in 16..31
    \/ ip[1] = 192 /\ ip[2] = 168

\* ... or in 127/8 or 169.254/16
IsLocal(ip) ==
    \/ IsPrivate(ip)
    \/ ip[1] = 127
    \/ ip[1] = 169 /\ ip[2] = 254

Extracted == probe.kind = "extracted"

\* the one event has the line's port, the label of the port and, with no
\* reader, no place
EventOfLine ==
    /\ Len(probe.events) = 1
    /\ probe.events[1].dst_port = probe.line.dst_port
    /\ probe.events[1].service =
           IF probe.line.dst_port \in DOMAIN PortMap
           THEN <<PortMap[probe.line.dst_port]>>
           ELSE <<"port-", probe.line.dst_port>>

NoPlace ==
    /\ probe.events[1].country = "Unknown"
    /\ probe.events[1].city = "Unknown"

\* C19 as stated: a line the connection pattern matches yields exactly one
\* event, with the line's port, the port's label from the table or port-N,
\* and country and city Unknown when there is no reader and the address is
\* not in a private, loopback or link-local range
C19_ConnectionExtraction ==
    (Extracted /\ probe.line.pattern \in {"connection", "both"})
    => /\ EventOfLine
       /\ (probe.reader = "none" /\ ~IsLocal(probe.line.src_ip)) => NoPlace

\* C19 as amended: ... a line the connection pattern matches and whose
\* date and time digits make a date ..., and country and city Unknown when
\* there is no reader and the address is neither in a private, loopback or
\* link-local range nor begins with 0.0.0.0
C19_ConnectionExtractionOfDated ==
    (/\ Extracted
     /\ probe.line.pattern \in {"connection", "both"}
     /\ probe.line.date_ok)
    => /\ EventOfLine
       /\ (/\ probe.reader = "none"
           /\ ~IsLocal(probe.line.src_ip)
           /\ probe.line.src_ip # <<0, 0, 0, 0>>)
          => NoPlace

\* a connection line to port 22 from a public address, with no reader, gave
\* one ssh event with no place; so did one to a port that is not in the
\* table, with the label port-8080
C19_Witness ==
    /\ Extracted
    /\ probe.line.pattern = "connection" /\ probe.line.date_ok
    /\ probe.line.dst_port = "22"
    /\ probe.line.src_ip = <<45, 20, 0, 1>>
    /\ probe.reader = "none"
    /\ Len(probe.events) = 1
    /\ probe.events[1].service = <<"ssh">>
    /\ probe.events[1].country = "Unknown"

\* C20: for every address in a private, loopback or link-local range
\* get_location returns the Private/Local result without calling the reader
C20_LocalShortCircuit ==
    (Extracted /\ IsLocal(probe.line.src_ip))
    => /\ probe.location.country = "Private/Local"
       /\ probe.location.city = "Local Network"
       /\ ~probe.location.consulted

BothDone == runs.proc[1].pc = "done" /\ runs.proc[2].pc = "done"

\* C18: two invocations started together can leave a store that neither
\* serial order leaves, and only when their steps overlap: whenever both
\* have finished and the store is not one two invocations one after the
\* other leave, one took a step while the other was between its load and
\* its last write
C18_DivergenceByOverlap ==
    (BothDone /\ persistent_db \notin runs.serial) => runs.overlapped

\* both have finished after overlapping, the store is none of the serial
\* ones, and the event of a line of the log whose hash is on file is in
\* every serial store and not in the store
C18_Witness ==
    /\ BothDone /\ runs.overlapped
    /\ runs.serial # {}
    /\ persistent_db \notin runs.serial
    /\ \E l \in Range(log) :
          /\ Matches(l)
          /\ LineHash(l) \in hashes
          /\ AttackOf(l) \notin Range(persistent_db.data)
          /\ \A d \in runs.serial : AttackOf(l) \in Range(d.data)

Summarised == probe.kind = "summary"

\* C21: last_24h_attacks is the number of stored events stamped within
\* the 24 hours before the clock of the run
C21_Last24hCount ==
    Summarised
    => probe.last_24h_attacks =
           Cardinality({i \in 1..Len(probe.attacks) :
                           /\ probe.attacks[i] >= probe.now - 24
                           /\ probe.attacks[i] <= probe.now})

\* how many times e is in s
Count(s, e) == Cardinality({i \in 1..Len(s) : s[i] = e})

\* the loaded events followed by the extracted ones whose key no loaded
\* event has
Candidates ==
    obs.existing \o
    SelectSeq(obs.new_attacks,
              LAMBDA a : Signature(a) \notin Signatures(obs.existing))

\* C22: the store a complete invocation leaves is in ascending order of
\* timestamp and is made of the StoreBound latest of the loaded events and
\* the extracted events whose key no loaded event has: all of them when
\* they are no more than StoreBound, and otherwise StoreBound of them, none
\* earlier than one left out
C22_MergeResult ==
    Done
    => /\ persistent_db.st = "ok"
       /\ \A i, j \in 1..Len(persistent_db.data) :
              i < j => persistent_db.data[i].timestamp
                           <= persistent_db.data[j].timestamp
       /\ Len(persistent_db.data) =
              IF Len(Candidates) < StoreBound THEN Len(Candidates)
              ELSE StoreBound
       /\ \A e \in Range(persistent_db.data) :
              Count(persistent_db.data, e) <= Count(Candidates, e)
       /\ \A e \in Range(Candidates) :
              Count(persistent_db.data, e) < Count(Candidates, e)
              => \A f \in Range(persistent_db.data) :
                     e.timestamp <= f.timestamp

\* an invocation loaded a store, extracted an event the store had and
\* events it had not, and the bound left a loaded event out
C22_Witness ==
    /\ DoneIncremental
    /\ obs.existing # <<>>
    /\ \E a \in Range(obs.new_attacks) :
          Signature(a) \in Signatures(obs.existing)
    /\ \E a \in Range(obs.new_attacks) :
          /\ Signature(a) \notin Signatures(obs.existing)
          /\ a \in Range(persistent_db.data)
    /\ \E e \in Range(obs.existing) : e \notin Range(persistent_db.data)
    /\ Len(persistent_db.data) = StoreBound

\* the hashes of the lines from the k-th of the log on
HashesFrom(k) == {LineHash(log[i]) : i \in k..Len(log)}

\* the hashes of the HashBound distinct lines nearest the end of the log
RecentHashes ==
    HashesFrom(CHOOSE k \in 1..Len(log) :
                   /\ Cardinality(HashesFrom(k)) = HashBound
                   /\ Cardinality(HashesFrom(k + 1)) < HashBound)

\* C23: when the hash set of a complete incremental invocation is over
\* HashBound, the hashes it leaves on file are those of the HashBound
\* distinct lines it read last
C23_TrimKeepsRecent ==
    (DoneIncremental /\ obs.hashes_over /\ ~obs.cleared /\ hashExists)
    => hashes = RecentHashes

\* C24 as stated: after every complete incremental invocation that found
\* the log, the offset on file is the end of the file the read loop
\* reached
C24_CursorAtEnd ==
    (DoneIncremental /\ logExists) => processed_log = obs.size

\* C24 as amended: ... unless the invocation rewrote the log to its last
\* KeepLines lines, and then the offset on file is 0
C24_CursorAtEndUnlessCleared ==
    (DoneIncremental /\ logExists)
    => processed_log = IF obs.cleared THEN 0 ELSE obs.size

\* an invocation began past the start of a log that holds a line no
\* pattern matches, rewrote nothing, and left the offset at the end
C24_Witness ==
    /\ DoneIncremental /\ logExists /\ ~obs.cleared
    /\ obs.last_position > 0
    /\ obs.size > obs.last_position
    /\ "n" \in Range(log)
    /\ processed_log = Len(log)

\* the lines that give an event
GivesEvent(l) == l \notin {"x", "n"}

\* C25: in a complete incremental invocation that applied the patterns to
\* the line x, which they match and whose date is impossible: x gave no
\* event, its hash is in the hash set, the offset on file is past it, and
\* every other line read is hashed and gave its event as it would have
\* with a line no pattern matches in the place of x
C25_BadLineIsolated ==
    (DoneIncremental /\ logExists /\ "x" \in obs.examined)
    => /\ Range(obs.new_attacks) =
              {AttackOf(l) : l \in {e \in obs.examined : GivesEvent(e)}}
       /\ ~obs.log_rotated
              => Len(obs.new_attacks) =
                     Cardinality({e \in obs.examined : GivesEvent(e)})
       /\ LineHash("x") \in obs.hashed
       /\ processed_log = IF obs.cleared THEN 0 ELSE obs.size
       /\ ~obs.cleared
              => \A i \in (obs.last_position + 1)..obs.size :
                     LineHash(log[i]) \in obs.hashed

\* an invocation read x and then c, and the event of c is in the store
C25_Witness ==
    /\ DoneIncremental /\ logExists /\ ~obs.cleared
    /\ "x" \in obs.examined
    /\ \E i, j \in (obs.last_position + 1)..obs.size :
          i < j /\ log[i] = "x" /\ log[j] = "c"
    /\ AttackOf("c") \in Range(obs.new_attacks)
    /\ AttackOf("c") \in Range(persistent_db.data)
    /\ processed_log = Len(log)

\* the invocation wrote the store whole
StoreWritten ==
    \/ Done
    \/ obs.kind = "faulted" /\ obs.crash \in ArtifactFaults

\* C26: after an invocation that wrote the store whole and had found a
\* primary file, the backup file is the primary file as it was found
C26_BackupIsPrevious ==
    (StoreWritten /\ obs.preDb.st # "absent")
    => /\ backup_db = obs.preDb
       /\ persistent_db.st = "ok"

\* an invocation found a store with events, wrote another, and the backup
\* is the store it found
C26_Witness ==
    /\ StoreWritten
    /\ obs.preDb.st = "ok" /\ obs.preDb.data # <<>>
    /\ persistent_db.st = "ok"
    /\ persistent_db # obs.preDb
    /\ backup_db = obs.preDb

\* C27: the events an invocation extracted from lines whose hash it left
\* on file before it was killed, the store not yet written, are in the
\* store after the complete invocation that follows on the same log,
\* unless the store is at its bound
C27_OwedEventsStored ==
    (Done /\ Len(persistent_db.data) < StoreBound)
    => obs.owed \subseteq Range(persistent_db.data)

\* one of the store file and its backup holds a complete document
Loadable == persistent_db.st = "ok" \/ backup_db.st = "ok"

\* C28: no invocation, complete or killed, takes the last complete copy of
\* the store away: when one of the store file and its backup holds a
\* complete document before it, one does after it
C28_LoadableCopyKept == [][Loadable => Loadable']_vars

\* C29: once a complete incremental invocation has run on the log that
\* holds, completed, a line whose first part an earlier invocation had
\* read, the event of the line is in the store at some time from then on
C29_CompletedLineStored ==
    (Done /\ obs.completed) ~> (AttackOf("b") \in Range(persistent_db.data))

\* C30: after a complete invocation during which the honeypot appended a
\* line that gives an event, the line is in the log or its event is in the
\* store; and when the invocation rewrote the log, the offset on file is 0
\* and there is no hash file
C30_AppendedLineKept ==
    (Done /\ obs.appended # "none")
    => /\ GivesEvent(obs.appended)
              => \/ obs.appended \in Range(log)
                 \/ AttackOf(obs.appended) \in Range(persistent_db.data)
       /\ obs.cleared => processed_log = 0 /\ ~hashExists

\* C31: a complete invocation in full-rescan mode leaves in the store
\* every event of the store it found, unless the bound displaced it, and
\* then the store left is full and holds no event with an earlier
\* timestamp
C31_FullRescanKeepsHistory ==
    (Done /\ ~obs.incremental /\ obs.preDb.st = "ok")
    => \A e \in Range(obs.preDb.data) :
           \/ e \in Range(persistent_db.data)
           \/ /\ Len(persistent_db.data) = StoreBound
              /\ \A f \in Range(persistent_db.data) :
                     f.timestamp >= e.timestamp

=============================================================================
